---------------------------- MODULE Spec2Model ----------------------------
(***************************************************************************)
(* A model of the kidsevents aggregation pipeline:                         *)
(*   - DataAggregator.add_events and its fingerprint      (data_aggregator) *)
(*   - PlaceIDLookup: cache, rate limiter, persistence    (place_id_lookup) *)
(*   - split_events_by_week                               (split_by_week)   *)
(* Each component has its own specification over the shared variables; the *)
(* variables of the other components stay as Init left them.               *)
(***************************************************************************)
EXTENDS Integers, Sequences, FiniteSets, TLC

VARIABLES
    \* ---- DataAggregator ----
    events,          \* self.events: the working list
    seen_hashes,     \* self.seen_hashes
    agg_ret,         \* what the last add_events call gave its caller
    agg_stdout,      \* what the last add_events call printed
    submitted,       \* history: every record handed to add_events, in call order
    origin,          \* history: origin[i] = index in submitted of events[i]
    lastCall,        \* history: the last add_events call (batch, source, seen before)
    \* ---- PlaceIDLookup ----
    alive,           \* "down": no client yet, "running", "killed": the process died
    api_key,         \* self.api_key is set
    cache,           \* self.cache: key -> entry
    cache_file,      \* place_id_cache.json: [state, content]
    api_calls,       \* self.api_calls
    cache_hits,      \* self.cache_hits
    last_api_call,   \* self.last_api_call (a time.time() reading, ms)
    wall,            \* time.time(): the system wall clock, ms
    mono,            \* elapsed real time, ms
    loaded,          \* history: the cache as _load_cache returned it
    loaded_state,    \* history: the state of the file _load_cache found
    calls,           \* history: the lookups this client has returned from
    net_calls,       \* history: outbound requests sent by this client
    last_net,        \* history: mono time of this client's last outbound request, -1 if none
    net_gap,         \* history: real time between its last two outbound requests, -1 if < 2
    zero_keys,       \* history: keys whose zero-results entry this client holds
    zero_ever,       \* history: keys some lookup of some run returned zero results for
    skipped_keys,    \* history: keys skipped for want of credentials, not fetched since
    runs,            \* history: clients constructed
    lookups,         \* history: lookups started, over all clients
    \* ---- split_by_week ----
    sys_date,        \* datetime.now().date(), as a day number (1 = 2025-11-01)
    events_json,     \* the canonical feed file events.json: [state, events]
    week_files,      \* events_week1..4.json: n -> [state, ...]
    split_result,    \* how the last split_events_by_week call ended
    split_today,     \* history: `today` as the last writing call read it
    split_feed,      \* history: the events the last writing call read
    \* ---- main and the processing stages ----
    pc,              \* where main is: "idle" outside a run
    collector_i,     \* the collector main is at (1..NumCollectors)
    collector_log,   \* history: how each collector block ended
    last_stage,      \* history: the last stage called and how it ended
    stage_in,        \* history: the working list that stage was called on
    enrich_i,        \* enrich_with_place_ids: the loop index
    events_full,     \* events_full.json: [state, events]
    metadata,        \* metadata.json: [state, ...]
    filter_today,    \* history: `today` as filter_past_events read it, 0 before
    venue_in,        \* history: the venue the last enrich_venue call got
    venue_out        \* history: the venue as that call left it

aggVars == <<events, seen_hashes, agg_ret, agg_stdout, submitted, origin, lastCall>>

clockVars == <<wall, mono>>

clientVars == <<alive, api_key, cache, cache_file, api_calls, cache_hits,
                last_api_call, loaded, loaded_state, calls, net_calls, last_net, net_gap,
                zero_keys, zero_ever, skipped_keys, runs, lookups>>

splitVars == <<sys_date, events_json, week_files, split_result, split_today, split_feed>>

runVars == <<pc, collector_i, collector_log, last_stage, stage_in, enrich_i,
             events_full, metadata, filter_today, venue_in, venue_out>>

vars == <<aggVars, clientVars, clockVars, splitVars, runVars>>

Null == "null"

(***************************************************************************)
(* Python values.  A dict is a function on its keys; a missing key is a    *)
(* key outside DOMAIN.                                                     *)
(***************************************************************************)
Has(d, k) == k \in DOMAIN d

Put(d, k, v) == [x \in (DOMAIN d) \cup {k} |-> IF x = k THEN v ELSE d[x]]

\* str.lower() on the strings of the vocabulary (strings without an
\* upper-case letter are their own image).
Lower(s) ==
    CASE s = "Storytime"    -> "storytime"
      [] s = "STORYTIME"    -> "storytime"
      [] s = "Lego Club"    -> "lego club"
      [] s = "Main Library" -> "main library"
      [] s = "MAIN LIBRARY" -> "main library"
      [] s = "ROM"          -> "rom"
      [] s = "Rom "         -> "rom "
      [] s = "AGO"          -> "ago"
      [] s = "100 Queens Park" -> "100 queens park"
      [] s = "317 Dundas St W" -> "317 dundas st w"
      [] OTHER              -> s

\* hashlib.md5(...).hexdigest(): a digest of the key string, taken to be
\* collision free on the keys of the model.
Md5(s) == "md5:" \o s

(***************************************************************************)
(* The records collectors hand over.                                       *)
(***************************************************************************)
Titles     == {"Storytime", "STORYTIME", "Lego Club"}
Dates      == {"2025-11-05"}
StartTimes == {"10:00"}
VenueNames == {"Main Library", "MAIN LIBRARY"}
Sources    == {"TPL", "Community"}

WellFormedEvents ==
    { [title |-> t, date |-> d, start_time |-> s, venue |-> [name |-> n]] :
        t \in Titles, d \in Dates, s \in StartTimes, n \in VenueNames }

MalformedEvents ==
    { [date |-> "2025-11-05", start_time |-> "10:00",
       venue |-> [name |-> "Main Library"]],                         \* no title
      [title |-> "Storytime", date |-> "2025-11-05",
       start_time |-> "10:00"],                                      \* no venue
      [title |-> "Storytime", date |-> "2025-11-05",
       start_time |-> "10:00", venue |-> [address |-> "1 Main St"]] } \* venue without name

PresetIdEvents ==
    { [title |-> "Lego Club", date |-> "2025-11-05", start_time |-> "10:00",
       venue |-> [name |-> "Main Library"], id |-> "evt-1"] }

CollectorEvents == WellFormedEvents \cup MalformedEvents \cup PresetIdEvents

\* The total number of records handed to add_events in one run.
MaxSubmitted == 3

RECURSIVE SeqsUpTo(_, _)
SeqsUpTo(S, n) ==
    IF n = 0 THEN { <<>> }
    ELSE LET shorter == SeqsUpTo(S, n - 1)
         IN  shorter \cup { Append(q, x) : q \in { r \in shorter : Len(r) = n - 1 }, x \in S }

(***************************************************************************)
(* DataAggregator.generate_event_hash: event['title'], event['date'],      *)
(* event['start_time'] and event['venue']['name'] joined by "_", the whole *)
(* string lower-cased, then md5.  A missing key raises KeyError.           *)
(***************************************************************************)
HashRaises(event) ==
    ~ ( Has(event, "title") /\ Has(event, "date") /\ Has(event, "start_time")
        /\ Has(event, "venue") /\ Has(event.venue, "name") )

\* The hash without the lower-casing of the key.
generate_event_hash_case_sensitive(event) ==
    Md5(event.title \o "_" \o event.date \o "_"
        \o event.start_time \o "_" \o event.venue.name)

generate_event_hash(event) ==
    Md5(Lower(event.title) \o "_" \o Lower(event.date) \o "_"
        \o Lower(event.start_time) \o "_" \o Lower(event.venue.name))

\* is_duplicate: membership of the hash in seen_hashes (the add to the set
\* is the caller's state update below).
is_duplicate(event, seen) == generate_event_hash(event) \in seen

(***************************************************************************)
(* DataAggregator.add_events: the loop over the batch, from record i on.   *)
(* st = [events, seen, origin, added, duplicates, raised]; base is the     *)
(* number of records submitted before this call.                           *)
(***************************************************************************)
\* An add_events that undoes its batch when a record raises.
on_key_error_rollback(st) ==
    [events |-> events, seen |-> seen_hashes, origin |-> origin,
     added |-> 0, duplicates |-> 0, raised |-> TRUE]

\* The KeyError of generate_event_hash leaves the loop of lines 83-95 and
\* add_events; what the loop did so far stays.
on_key_error(st) == [st EXCEPT !.raised = TRUE]

\* An id written over whatever the collector supplied.
with_id_always(event) == Put(event, "id", generate_event_hash(event))

\* lines 88-89: `if 'id' not in event: event['id'] = generate_event_hash(event)`
with_id(event) ==
    IF Has(event, "id") THEN event ELSE Put(event, "id", generate_event_hash(event))

RECURSIVE add_events_loop(_, _, _, _, _)
add_events_loop(batch, source, i, base, st) ==
    IF i > Len(batch) THEN st
    ELSE
      LET stamped == Put(batch[i], "source", source)
      IN  IF HashRaises(stamped)
          THEN on_key_error(st)
          ELSE
            LET event == with_id(stamped)
            IN  IF ~ is_duplicate(event, st.seen)
                THEN add_events_loop(batch, source, i + 1, base,
                        [st EXCEPT !.events = Append(@, event),
                                   !.origin = Append(@, base + i),
                                   !.seen   = @ \cup {generate_event_hash(event)},
                                   !.added  = @ + 1])
                ELSE add_events_loop(batch, source, i + 1, base,
                        [st EXCEPT !.duplicates = @ + 1])

\* What add_events hands back: `return added`, or the exception.
add_events_result(st) ==
    IF st.raised THEN [kind |-> "raise", exc |-> "KeyError"]
    ELSE [kind |-> "return", added |-> st.added]

\* What add_events prints: the added line always, the skipped line only
\* when duplicates > 0; nothing when the loop raised.
add_events_prints(st) ==
    IF st.raised THEN [raised |-> TRUE]
    ELSE IF st.duplicates > 0
         THEN [added |-> st.added, skipped |-> st.duplicates]
         ELSE [added |-> st.added]

add_events(batch, source) ==
    LET st0 == [events |-> events, seen |-> seen_hashes, origin |-> origin,
                added |-> 0, duplicates |-> 0, raised |-> FALSE]
        st  == add_events_loop(batch, source, 1, Len(submitted), st0)
    IN  /\ events'      = st.events
        /\ seen_hashes' = st.seen
        /\ origin'      = st.origin
        /\ agg_ret'     = add_events_result(st)
        /\ agg_stdout'  = add_events_prints(st)
        /\ submitted'   = submitted \o batch
        /\ lastCall'    = [batch |-> batch, source |-> source, seen |-> seen_hashes]

AddEventsCall ==
    \E batch \in SeqsUpTo(CollectorEvents, MaxSubmitted - Len(submitted)) :
      \E source \in Sources :
        /\ Len(submitted) + Len(batch) <= MaxSubmitted
        /\ add_events(batch, source)
        /\ UNCHANGED <<clientVars, clockVars, splitVars, runVars>>

(***************************************************************************)
(* PlaceIDLookup.                                                          *)
(***************************************************************************)
EmptyMap == [k \in {} |-> Null]

\* dict.update
Update(d, u) == [x \in (DOMAIN d) \cup (DOMAIN u) |-> IF x \in DOMAIN u THEN u[x] ELSE d[x]]

\* str.strip() on the strings of the vocabulary.
Strip(s) == CASE s = "rom " -> "rom" [] OTHER -> s

\* The venues looked up: two spellings of one venue, and another venue.
LookupNames   == {"ROM", "Rom ", "AGO"}
LookupAddress == "100 Queens Park"
PlaceIds      == {"ChIJ-1", "ChIJ-2"}

\* self.min_delay_seconds = 0.1, in ms.
MinDelayMs == 100

\* The wall clock reading when the model starts (any time.time() of today
\* is far above min_delay_seconds).
WallStart == 1000

\* Bounds on the runs (clients constructed) and on the lookups of all runs.
MaxRuns    == 2
MaxLookups == 3

\* What the Places endpoint can answer to one request.
FoundOutcomes == { [kind |-> "found", pid |-> p] : p \in PlaceIds }
FailOutcomes  == { [kind |-> k] : k \in {"no_id", "zero", "http", "net"} }
ApiOutcomes   == FoundOutcomes \cup FailOutcomes

\* How one _save_cache can end: written, open() raised IOError (file
\* untouched), or the write raised IOError after open() truncated the file.
SaveOutcomes == {"ok", "open_fails", "write_fails"}

\* The file is absent, holds the JSON of a cache, exists but cannot be
\* read or parsed (truncated, partial: IOError, JSONDecodeError), or holds
\* bytes that are not UTF-8 (read() raises UnicodeDecodeError).
FileAbsent      == [state |-> "absent",  content |-> EmptyMap]
FileGarbled     == [state |-> "garbled", content |-> EmptyMap]
FileJson(c)     == [state |-> "json",    content |-> c]
FileUndecodable == [state |-> "undecodable", content |-> EmptyMap]

\* _generate_cache_key: md5 of lower().strip() of name and address, "|" between.
generate_cache_key(venue_name, address) ==
    Md5(Strip(Lower(venue_name)) \o "|" \o Strip(Lower(address)))

\* _load_cache: the parsed file, {} when it is absent or json.load raises
\* (JSONDecodeError, IOError).
load_cache(file) == IF file.state = "json" THEN file.content ELSE EmptyMap

\* _load_cache, line 53: `except (json.JSONDecodeError, IOError)` does not
\* catch the UnicodeDecodeError of f.read(); it leaves _load_cache and
\* __init__.
load_cache_raises(file) == file.state = "undecodable"

\* A save that only reaches the file on every second entry.
save_cache_batched(file, c, how) ==
    IF how = "ok" THEN (IF Cardinality(DOMAIN c) % 2 = 0 THEN FileJson(c) ELSE file)
    ELSE IF how = "open_fails" THEN file
    ELSE FileGarbled

\* _save_cache: open(..., 'w') truncates, json.dump writes the whole cache;
\* IOError is caught and printed.
save_cache(file, c, how) ==
    IF how = "ok" THEN FileJson(c)
    ELSE IF how = "open_fails" THEN file
    ELSE FileGarbled

\* _rate_limit: the time slept, from two time.time() readings.
rate_limit_sleep(now, last) ==
    IF now - last < MinDelayMs THEN MinDelayMs - (now - last) ELSE 0

\* _call_places_api: a dict for a first candidate (with its id and location,
\* or with 'place_id': None when the candidate has no id), None (the empty
\* map here: both are falsy) for zero results, an HTTP error or a
\* RequestException.
call_places_api(outcome) ==
    IF outcome.kind = "found"
    THEN IF Has(outcome, "located") /\ ~ outcome.located
         THEN [place_id |-> outcome.pid, google_lat |-> Null, google_lng |-> Null]
         ELSE [place_id |-> outcome.pid, google_lat |-> "43.66", google_lng |-> "-79.39"]
    ELSE IF outcome.kind = "no_id" THEN [place_id |-> Null]
    ELSE EmptyMap

\* lines 120-129: the entry built from the API result.  (looked_up_at,
\* google_name and google_address are written and never read; they are left
\* out of the entry.)
cache_entry_for(venue_name, address, api_result) ==
    Update([place_id |-> Null, venue_name |-> venue_name, address |-> address],
           api_result)

\* A cache that treats a stored null as a miss.
cache_hit_unless_null(c, key) == key \in DOMAIN c /\ c[key].place_id # Null

\* line 100: `if cache_key in self.cache`
cache_hit(c, key) == key \in DOMAIN c

\* A cache write that keeps only resolved venues.
cache_write_if_found(c, key, entry) ==
    IF entry.place_id = Null THEN c ELSE Put(c, key, entry)

\* line 131: self.cache[cache_key] = cache_entry
cache_write(c, key, entry) == Put(c, key, entry)

\* A no-credentials path that records the venue as not found.
lookup_no_key_cached(key, venue_name, address) ==
    LET c == Put(cache, key, cache_entry_for(venue_name, address, EmptyMap))
    IN  [cache |-> c, file |-> save_cache(cache_file, c, "ok"),
         api_calls |-> api_calls, cache_hits |-> cache_hits,
         last_api_call |-> last_api_call, slept |-> 0, net |-> FALSE,
         ret |-> Null, how |-> "no_key", save |-> "ok"]

\* lines 110-113: no API key: return None.
lookup_no_key(key, venue_name, address) ==
    [cache |-> cache, file |-> cache_file,
     api_calls |-> api_calls, cache_hits |-> cache_hits,
     last_api_call |-> last_api_call, slept |-> 0, net |-> FALSE,
     ret |-> Null, how |-> "no_key", save |-> "none"]

\* A cache-hit branch that forgets to count the hit.
lookup_hit_uncounted(key) ==
    [cache |-> cache, file |-> cache_file,
     api_calls |-> api_calls, cache_hits |-> cache_hits,
     last_api_call |-> last_api_call, slept |-> 0, net |-> FALSE,
     ret |-> cache[key].place_id, how |-> "hit", save |-> "none"]

\* lines 100-108: the cache-hit branch.
lookup_hit(key) ==
    [cache |-> cache, file |-> cache_file,
     api_calls |-> api_calls, cache_hits |-> cache_hits + 1,
     last_api_call |-> last_api_call, slept |-> 0, net |-> FALSE,
     ret |-> cache[key].place_id, how |-> "hit", save |-> "none"]

\* A cache that holds the latest entry only.
lookup_live_single_entry(key, venue_name, address, outcome, save) ==
    LET slept == rate_limit_sleep(wall, last_api_call)
        entry == cache_entry_for(venue_name, address, call_places_api(outcome))
        c     == cache_write(EmptyMap, key, entry)
    IN  [cache |-> c, file |-> save_cache(cache_file, c, save),
         api_calls |-> api_calls + 1, cache_hits |-> cache_hits,
         last_api_call |-> wall + slept, slept |-> slept, net |-> TRUE,
         ret |-> entry.place_id, how |-> outcome.kind, save |-> save]

\* lines 115-135: rate limit, outbound call, cache write, save, count.
lookup_live(key, venue_name, address, outcome, save) ==
    LET slept == rate_limit_sleep(wall, last_api_call)
        entry == cache_entry_for(venue_name, address, call_places_api(outcome))
        c     == cache_write(cache, key, entry)
    IN  [cache |-> c, file |-> save_cache(cache_file, c, save),
         api_calls |-> api_calls + 1, cache_hits |-> cache_hits,
         last_api_call |-> wall + slept, slept |-> slept, net |-> TRUE,
         ret |-> entry.place_id, how |-> outcome.kind, save |-> save]

\* A lookup that counts a miss without credentials as a hit.
lookup_place_id_counting_skips(venue_name, address, outcome, save) ==
    LET key == generate_cache_key(venue_name, address)
    IN  IF cache_hit(cache, key) THEN lookup_hit(key)
        ELSE IF ~ api_key
             THEN [lookup_no_key(key, venue_name, address) EXCEPT !.cache_hits = @ + 1]
        ELSE lookup_live(key, venue_name, address, outcome, save)

\* lookup_place_id, lines 97-135, as the client state it leaves and what it
\* returns.
lookup_place_id(venue_name, address, outcome, save) ==
    LET key == generate_cache_key(venue_name, address)
    IN  IF cache_hit(cache, key) THEN lookup_hit(key)
        ELSE IF ~ api_key THEN lookup_no_key(key, venue_name, address)
        ELSE lookup_live(key, venue_name, address, outcome, save)

\* What one lookup_place_id call that returns does to the client, the clock
\* and the history.
LookupEffects(venue_name, address, outcome, save) ==
    LET key == generate_cache_key(venue_name, address)
        r   == lookup_place_id(venue_name, address, outcome, save)
        t   == mono + r.slept
    IN  /\ lookups'       = lookups + 1
        /\ cache'         = r.cache
        /\ cache_file'    = r.file
        /\ api_calls'     = r.api_calls
        /\ cache_hits'    = r.cache_hits
        /\ last_api_call' = r.last_api_call
        /\ wall'          = wall + r.slept
        /\ mono'          = t
        /\ calls'         = Append(calls,
                               [name |-> venue_name, address |-> address,
                                ret |-> r.ret, how |-> r.how, save |-> r.save,
                                api_calls |-> r.api_calls,
                                cache_hits |-> r.cache_hits,
                                net_calls |-> IF r.net THEN net_calls + 1 ELSE net_calls,
                                was_skipped |-> key \in skipped_keys])
        /\ net_calls'     = IF r.net THEN net_calls + 1 ELSE net_calls
        /\ last_net'      = IF r.net THEN t ELSE last_net
        /\ net_gap'       = IF r.net /\ last_net >= 0 THEN t - last_net ELSE net_gap
        /\ zero_keys'     = IF r.how = "zero" THEN zero_keys \cup {key} ELSE zero_keys
        /\ zero_ever'     = IF r.how = "zero" THEN zero_ever \cup {key} ELSE zero_ever
        /\ skipped_keys'  = IF r.how = "no_key" THEN skipped_keys \cup {key}
                            ELSE IF r.net THEN skipped_keys \ {key}
                            ELSE skipped_keys
        /\ UNCHANGED <<alive, api_key, loaded, loaded_state, runs>>

\* One lookup_place_id call that returns.
Lookup(venue_name, address, outcome, save) ==
    /\ alive = "running"
    /\ lookups < MaxLookups
    /\ LookupEffects(venue_name, address, outcome, save)
    /\ UNCHANGED <<aggVars, splitVars, runVars>>

\* The process is killed inside a lookup_place_id that had reached the
\* outbound call: before the cache write, inside _save_cache after open()
\* truncated the file, or after the save and before the return.
KillPoints == {"before_save", "in_save", "after_save"}

LookupKilled(venue_name, address, outcome, point) ==
    LET key == generate_cache_key(venue_name, address)
        r   == lookup_live(key, venue_name, address, outcome, "ok")
    IN  /\ alive = "running"
        /\ lookups < MaxLookups
        /\ api_key /\ ~ cache_hit(cache, key)
        /\ lookups'    = lookups + 1
        /\ alive'      = "killed"
        /\ cache_file' = IF point = "before_save" THEN cache_file
                         ELSE IF point = "in_save" THEN FileGarbled
                         ELSE r.file
        /\ wall'       = wall + r.slept
        /\ mono'       = mono + r.slept
        \* the request went out before the kill
        /\ net_calls'    = net_calls + 1
        /\ skipped_keys' = skipped_keys \ {key}
        \* the memory of the dead process is kept as it was when its last
        \* lookup returned
        /\ UNCHANGED <<api_key, cache, api_calls, cache_hits, last_api_call,
                       loaded, loaded_state, calls, last_net, net_gap, zero_keys,
                       zero_ever, runs, aggVars, splitVars, runVars>>

\* PlaceIDLookup.__init__, lines 39-45: a new process constructs its client.
NewClient(key_set) ==
    /\ runs < MaxRuns
    /\ runs'          = runs + 1
    /\ alive'         = IF load_cache_raises(cache_file) THEN "failed" ELSE "running"
    /\ api_key'       = key_set
    /\ cache'         = load_cache(cache_file)
    /\ loaded'        = load_cache(cache_file)
    /\ loaded_state'  = cache_file.state
    /\ api_calls'     = 0
    /\ cache_hits'    = 0
    /\ last_api_call' = 0
    /\ calls'         = <<>>
    /\ net_calls'     = 0
    /\ last_net'      = -1
    /\ net_gap'       = -1
    \* the zero-results entries of the previous client that came back from the file
    /\ zero_keys'     = { k \in zero_keys :
                            k \in DOMAIN load_cache(cache_file)
                            /\ load_cache(cache_file)[k] = cache[k] }
    /\ UNCHANGED <<cache_file, zero_ever, skipped_keys, lookups, clockVars, aggVars, splitVars, runVars>>

(***************************************************************************)
(* PlaceIDLookup.enrich_venue.                                             *)
(***************************************************************************)
\* dict.get(k): None for a missing key.
Get(d, k) == IF Has(d, k) THEN d[k] ELSE Null

\* Python truth of the values of the model: None, '' and 0.0 are false.
Truthy(x) == x \notin {Null, "", "0.0"}

\* line 264: `if not lat or not lng`
lacks_coordinates(lat, lng) == ~ Truthy(lat) \/ ~ Truthy(lng)

\* An enrichment that writes the place id whatever lookup returned.
venue_with_place_id_always(venue, place_id) == Put(venue, "place_id", place_id)

\* lines 252-253: `if place_id: venue['place_id'] = place_id`
venue_with_place_id(venue, place_id) ==
    IF Truthy(place_id) THEN Put(venue, "place_id", place_id) ELSE venue

\* lines 252-268: the venue as enrich_venue leaves it, given what lookup
\* returned and the cache after the lookup.
enrich_venue_write(venue, place_id, cache_after) ==
    LET key        == generate_cache_key(Get(venue, "name"), Get(venue, "address"))
        v1         == venue_with_place_id(venue, place_id)
        cached     == IF key \in DOMAIN cache_after THEN cache_after[key] ELSE EmptyMap
        google_lat == Get(cached, "google_lat")
        google_lng == Get(cached, "google_lng")
    IN  IF ~ Truthy(place_id) THEN v1
        ELSE IF Truthy(google_lat) /\ Truthy(google_lng)
                /\ lacks_coordinates(Get(venue, "lat"), Get(venue, "lng"))
             THEN Put(Put(v1, "lat", google_lat), "lng", google_lng)
             ELSE v1

\* line 247: `if not venue_name or not address: return venue`
enrich_venue_skips(venue) ==
    ~ Truthy(Get(venue, "name")) \/ ~ Truthy(Get(venue, "address"))

\* enrich_venue, lines 232-268: one call on a venue.
EnrichVenueEffects(venue, outcome, save) ==
    /\ venue_in' = venue
    /\ IF enrich_venue_skips(venue)
       THEN /\ venue_out' = venue
            /\ UNCHANGED <<clientVars, clockVars>>
       ELSE LET r == lookup_place_id(venue.name, venue.address, outcome, save)
            IN  /\ LookupEffects(venue.name, venue.address, outcome, save)
                /\ venue_out' = enrich_venue_write(venue, r.ret, r.cache)

EnrichVenue(venue, outcome, save) ==
    /\ alive = "running"
    /\ lookups < MaxLookups
    /\ EnrichVenueEffects(venue, outcome, save)
    /\ UNCHANGED <<aggVars, splitVars, pc, collector_i, collector_log, last_stage,
                   stage_in, enrich_i, events_full, metadata, filter_today>>

\* The venues handed to enrich_venue: without coordinates, with one of the
\* two, with a zero latitude, with both, and without an address.
EnrichVenues ==
    { [name |-> "ROM", address |-> LookupAddress],
      [name |-> "ROM", address |-> LookupAddress, lat |-> "43.50"],
      [name |-> "ROM", address |-> LookupAddress, lat |-> "0.0", lng |-> "-79.00"],
      [name |-> "ROM", address |-> LookupAddress, lat |-> "43.50", lng |-> "-79.00"],
      [name |-> "AGO"] }

\* What the Places endpoint answers in the enrichment runs: a candidate with
\* its location, a candidate without one, or nothing.
EnrichOutcomes ==
    { [kind |-> "found", pid |-> "ChIJ-1"],
      [kind |-> "found", pid |-> "ChIJ-1", located |-> FALSE],
      [kind |-> "zero"] }

\* Real time passes.
TimeSteps == {50, 100}
MaxClockMs == 200

TimePasses(d) ==
    /\ mono + d <= MaxClockMs
    /\ mono' = mono + d
    /\ wall' = wall + d
    /\ UNCHANGED <<clientVars, aggVars, splitVars, runVars>>

\* The system clock is set (NTP step, an administrator): time.time() jumps,
\* real time does not.
ClockJumps == {-100, 100}

ClockAdjust(j) ==
    /\ wall + j >= WallStart - MinDelayMs
    /\ wall + j <= WallStart + MaxClockMs + MinDelayMs
    /\ wall' = wall + j
    /\ UNCHANGED <<mono, clientVars, aggVars, splitVars, runVars>>

(***************************************************************************)
(* split_by_week.                                                          *)
(***************************************************************************)
Digits == <<"0", "1", "2", "3", "4", "5", "6", "7", "8", "9">>

TwoDigits(n) == Digits[(n \div 10) + 1] \o Digits[(n % 10) + 1]

Decimal(n) == IF n < 10 THEN Digits[n + 1] ELSE TwoDigits(n)

\* The days of the model: November and December 2025, day 1 = 2025-11-01.
Days == 1..61

MonthOf(n) == IF n <= 30 THEN "11" ELSE "12"

DayOfMonth(n) == IF n <= 30 THEN n ELSE n - 30

\* date.strftime('%Y-%m-%d')
FormatDate(n) == "2025-" \o MonthOf(n) \o "-" \o TwoDigits(DayOfMonth(n))

\* The same date written without zero padding ("2025-11-9").
UnpaddedDate(n) == "2025-" \o MonthOf(n) \o "-" \o Decimal(DayOfMonth(n))

\* datetime.strptime(s, '%Y-%m-%d'): %m and %d take one or two digits; any
\* other string raises ValueError.
DateParses(s) == \E n \in Days : s = FormatDate(n) \/ s = UnpaddedDate(n)

ParseDate(s) == CHOOSE n \in Days : s = FormatDate(n) \/ s = UnpaddedDate(n)

\* timedelta(days=7), four times (lines 34-37).
WeekDays == 7
Weeks    == 1..4

\* A window test with an inclusive upper end.
in_week_inclusive(today, event_date, n) ==
    today + WeekDays * (n - 1) <= event_date /\ event_date <= today + WeekDays * n

\* lines 50-60: week n holds today+7(n-1) <= event_date < today+7n.
in_week(today, event_date, n) ==
    today + WeekDays * (n - 1) <= event_date /\ event_date < today + WeekDays * n

\* A chain whose last branch has no upper end.
week_of_last_open(today, event) ==
    IF ~ Has(event, "date") THEN 0
    ELSE IF ~ DateParses(event.date) THEN 0
    ELSE LET d == ParseDate(event.date)
         IN  IF in_week(today, d, 1) THEN 1
             ELSE IF in_week(today, d, 2) THEN 2
             ELSE IF in_week(today, d, 3) THEN 3
             ELSE IF d >= today + WeekDays * 3 THEN 4
             ELSE 0

\* The if/elif chain of lines 50-60: the first week whose test holds, 0 for
\* none; the bare `except` of line 61 skips a record whose date is missing
\* or does not parse.
week_of(today, event) ==
    IF ~ Has(event, "date") THEN 0
    ELSE IF ~ DateParses(event.date) THEN 0
    ELSE LET d == ParseDate(event.date)
         IN  IF in_week(today, d, 1) THEN 1
             ELSE IF in_week(today, d, 2) THEN 2
             ELSE IF in_week(today, d, 3) THEN 3
             ELSE IF in_week(today, d, 4) THEN 4
             ELSE 0

\* Week lists that leave out the events dated today.
week_events_after_today(today, feed, n) ==
    LET InWeek(e) == week_of(today, e) = n /\ ParseDate(e.date) # today
    IN  SelectSeq(feed, InWeek)

\* lines 45-62: the events of week n, in feed order.
week_events(today, feed, n) ==
    LET InWeek(e) == week_of(today, e) = n
    IN  SelectSeq(feed, InWeek)

WeekNames == <<"Week 1", "Week 2", "Week 3", "Week 4">>

\* A file that keeps the events it held and gets the week's events behind them.
week_output_keeping_old(today, feed, n) ==
    [state |-> "json", total_events |-> Len(week_events(today, feed, n)),
     week |-> WeekNames[n],
     events |-> (IF week_files[n].state = "json" THEN week_files[n].events ELSE <<>>)
                  \o week_events(today, feed, n)]

\* lines 74-88: the file written for week n.
week_output(today, feed, n) ==
    [state |-> "json", total_events |-> Len(week_events(today, feed, n)),
     week |-> WeekNames[n], events |-> week_events(today, feed, n)]

NoFile == [state |-> "absent"]

\* The run date when the model starts, and how many midnights may pass.
Day0          == 3
MaxDaysPassed == 1

\* The records of a feed: dated relative to Day0 at the window edges, plus a
\* date without padding, an unparseable date and a record without date.
FeedOffsets == {-1, 0, 6, 7, 27, 28}

FeedEvents ==
    { [title |-> "Storytime", date |-> FormatDate(Day0 + o)] : o \in FeedOffsets }
    \cup { [title |-> "Storytime", date |-> UnpaddedDate(Day0 + 5)],
           [title |-> "Storytime", date |-> "TBD"],
           [title |-> "Storytime"] }

MaxFeed == 2

FeedJson(q) == [state |-> "json", events |-> q]

FeedAbsent  == [state |-> "absent",  events |-> <<>>]
FeedGarbled == [state |-> "garbled", events |-> <<>>]

\* split_events_by_week, lines 14-92.  The scrapers directory and its
\* parent get the same four files; week_files stands for both copies.
split_events_by_week ==
    /\ split_result' =
         IF events_json.state = "absent" THEN "no_file"              \* line 17
         ELSE IF events_json.state = "garbled" THEN "raised"         \* json.load
         ELSE IF events_json.events = <<>> THEN "no_events"          \* line 26
         ELSE "written"
    /\ IF events_json.state = "json" /\ events_json.events # <<>>
       THEN /\ week_files'  = [n \in Weeks |-> week_output(sys_date, events_json.events, n)]
            /\ split_today' = sys_date
            /\ split_feed'  = events_json.events
       ELSE UNCHANGED <<week_files, split_today, split_feed>>
    /\ UNCHANGED <<sys_date, events_json>>

\* One run of split_by_week on its own.
SplitByWeek ==
    /\ split_events_by_week
    /\ UNCHANGED <<aggVars, clientVars, clockVars, runVars>>

\* Midnight passes.
DayPasses ==
    /\ sys_date < Day0 + MaxDaysPassed
    /\ sys_date' = sys_date + 1
    /\ UNCHANGED <<events_json, week_files, split_result, split_today, split_feed,
                   aggVars, clientVars, clockVars, runVars>>

\* A later aggregation rewrites events.json (save_separate_files, lines
\* 246-258): with no events, or with one.
RewrittenFeeds ==
    { <<>>, <<[title |-> "Lego Club", date |-> FormatDate(Day0 + 1)]>> }

WriteFeed(q) ==
    /\ events_json # FeedJson(q)
    /\ events_json' = FeedJson(q)
    /\ UNCHANGED <<sys_date, week_files, split_result, split_today, split_feed,
                   aggVars, clientVars, clockVars, runVars>>

(***************************************************************************)
(* The processing stages of DataAggregator.                                *)
(***************************************************************************)
RequiredKeys == {"title", "date", "start_time", "venue"}

\* line 127: all(key in event for key in [...])
has_required(event) == \A k \in RequiredKeys : Has(event, k)

\* Defaults that replace age_groups only when the key is absent.
event_defaults_absent_only(event) ==
    LET e1 == IF ~ Has(event, "age_groups") THEN Put(event, "age_groups", <<"All Ages">>) ELSE event
        e2 == IF ~ Has(e1, "category") THEN Put(e1, "category", "Entertainment") ELSE e1
        e3 == IF ~ Has(e2, "icon") THEN Put(e2, "icon", "party") ELSE e2
        e4 == IF ~ Has(e3, "indoor_outdoor") THEN Put(e3, "indoor_outdoor", "Indoor") ELSE e3
        e5 == IF ~ Has(e4, "organized_by") THEN Put(e4, "organized_by", "Community Event") ELSE e4
    IN  IF ~ Has(e5, "website") THEN Put(e5, "website", Null) ELSE e5

\* lines 131-151: the defaults written into a record ("party" stands for
\* the emoji of line 139).
event_defaults(event) ==
    LET e1 == IF ~ Has(event, "age_groups") THEN Put(event, "age_groups", <<"All Ages">>)
              ELSE IF event.age_groups = <<>> THEN Put(event, "age_groups", <<"All Ages">>)
              ELSE event
        e2 == IF ~ Has(e1, "category") THEN Put(e1, "category", "Entertainment") ELSE e1
        e3 == IF ~ Has(e2, "icon") THEN Put(e2, "icon", "party") ELSE e2
        e4 == IF ~ Has(e3, "indoor_outdoor") THEN Put(e3, "indoor_outdoor", "Indoor") ELSE e3
        e5 == IF ~ Has(e4, "organized_by") THEN Put(e4, "organized_by", "Community Event") ELSE e4
    IN  IF ~ Has(e5, "website") THEN Put(e5, "website", Null) ELSE e5

\* lines 123-153: the loop that builds `validated`.
RECURSIVE validate_loop(_, _, _)
validate_loop(q, i, validated) ==
    IF i > Len(q) THEN validated
    ELSE IF ~ has_required(q[i]) THEN validate_loop(q, i + 1, validated)
    ELSE validate_loop(q, i + 1, Append(validated, event_defaults(q[i])))

RemoveAt(q, i) == SubSeq(q, 1, i - 1) \o SubSeq(q, i + 1, Len(q))

\* A validation that removes invalid records from the list it is iterating
\* over: the record after a removed one is never visited.
RECURSIVE remove_in_place_loop(_, _)
remove_in_place_loop(q, i) ==
    IF i > Len(q) THEN q
    ELSE IF ~ has_required(q[i]) THEN remove_in_place_loop(RemoveAt(q, i), i + 1)
    ELSE remove_in_place_loop([q EXCEPT ![i] = event_defaults(q[i])], i + 1)

validate_events_remove_in_place(q) == remove_in_place_loop(q, 1)

\* validate_events, lines 121-159: the new self.events.
validate_events(q) == validate_loop(q, 1, <<>>)

\* The working lists validate_events is checked on: records with every
\* display field, with none, with empty ones, and without a required field.
ValidateVenue == [name |-> "Main Library", address |-> "789 Yonge St"]

ValidateRecords ==
    { [title |-> "Storytime", date |-> "2025-11-05", start_time |-> "10:00",
       venue |-> ValidateVenue, age_groups |-> <<"Toddlers">>, category |-> "Arts",
       icon |-> "palette", indoor_outdoor |-> "Outdoor", organized_by |-> "TPL",
       website |-> "https://tpl.ca"],
      [title |-> "Lego Club", date |-> "2025-11-05", start_time |-> "10:00",
       venue |-> ValidateVenue],
      [title |-> "Lego Club", date |-> "2025-11-05", start_time |-> "10:00",
       venue |-> ValidateVenue, age_groups |-> <<>>, category |-> "", website |-> Null],
      [title |-> "Storytime", date |-> "2025-11-05", start_time |-> "10:00"],
      [title |-> "Storytime", date |-> "2025-11-05", venue |-> ValidateVenue] }

MaxWorking == 3

\* One call of validate_events on the working list.
ValidateEventsCall ==
    /\ pc = "idle"
    /\ events'     = validate_events(events)
    /\ stage_in'   = events
    /\ last_stage' = [name |-> "validate", raised |-> FALSE]
    /\ UNCHANGED <<seen_hashes, agg_ret, agg_stdout, submitted, origin, lastCall,
                   pc, collector_i, collector_log, enrich_i, events_full, metadata, filter_today,
                   venue_in, venue_out, clientVars, clockVars, splitVars>>

\* ---- filter_past_events ----
\* line 110: event['date'] of a record without date raises KeyError, and
\* strptime raises ValueError on a string that is not a date; either leaves
\* the list comprehension and the method.
filter_raises(q) ==
    \E i \in 1..Len(q) : ~ Has(q[i], "date") \/ ~ DateParses(q[i].date)

\* A filter that also drops the records dated today.
is_upcoming_strict(today, event) == ParseDate(event.date) > today

\* line 110: the test of the list comprehension.
is_upcoming(today, event) == ParseDate(event.date) >= today

\* A filter that lets every record through.
filter_past_events_keeps_all(today, q) == q

\* lines 108-111: the new self.events.
filter_past_events(today, q) ==
    LET Keep(e) == is_upcoming(today, e)
    IN  SelectSeq(q, Keep)

\* ---- sort_events ----
\* The code points of the characters of a string of the model (ord()).
DigitCode(d) == 48 + d

DateCodes(n) ==
    <<50, 48, 50, 53, 45, 49, IF n <= 30 THEN 49 ELSE 50, 45,
      DigitCode(DayOfMonth(n) \div 10), DigitCode(DayOfMonth(n) % 10)>>

UnpaddedCodes(n) ==
    IF DayOfMonth(n) >= 10 THEN DateCodes(n)
    ELSE <<50, 48, 50, 53, 45, 49, IF n <= 30 THEN 49 ELSE 50, 45,
           DigitCode(DayOfMonth(n))>>

Codes(s) ==
    CASE s = "09:30" -> <<48, 57, 58, 51, 48>>
      [] s = "10:00" -> <<49, 48, 58, 48, 48>>
      [] s = "9:00"  -> <<57, 58, 48, 48>>
      [] OTHER ->
           IF \E n \in Days : s = FormatDate(n)
           THEN DateCodes(CHOOSE n \in Days : s = FormatDate(n))
           ELSE IF \E n \in Days : s = UnpaddedDate(n)
           THEN UnpaddedCodes(CHOOSE n \in Days : s = UnpaddedDate(n))
           ELSE <<>>

\* str < str: at the first position where they differ, or a proper prefix.
CodesLess(a, b) ==
    \/ \E i \in 1..Len(a) :
         /\ i <= Len(b) /\ a[i] < b[i]
         /\ \A j \in 1..(i - 1) : a[j] = b[j]
    \/ Len(a) < Len(b) /\ \A j \in 1..Len(a) : a[j] = b[j]

StrLess(s, t) == CodesLess(Codes(s), Codes(t))

\* A sort key that leaves out the start time.
sort_key_less_date_only(e, f) == e.date # f.date /\ StrLess(e.date, f.date)

\* line 119: key=lambda e: (e['date'], e['start_time']); tuples compare
\* item by item.
sort_key_less(e, f) ==
    IF e.date = f.date THEN StrLess(e.start_time, f.start_time)
    ELSE StrLess(e.date, f.date)

\* list.sort is stable: a record goes behind every record whose key is not
\* greater than its own.
RECURSIVE insert_sorted(_, _)
insert_sorted(sorted, e) ==
    IF sorted = <<>> THEN <<e>>
    ELSE IF sort_key_less(e, Head(sorted)) THEN <<e>> \o sorted
    ELSE <<Head(sorted)>> \o insert_sorted(Tail(sorted), e)

RECURSIVE sort_loop(_, _, _)
sort_loop(q, i, sorted) ==
    IF i > Len(q) THEN sorted ELSE sort_loop(q, i + 1, insert_sorted(sorted, q[i]))

\* sort_events, lines 117-119.
sort_events(q) == sort_loop(q, 1, <<>>)

\* ---- save_metadata ----
\* lines 296-299: the events of the next seven days.
metadata_week_events(today, q) ==
    LET InWeek(e) == /\ Has(e, "date") /\ Truthy(e.date)
                     /\ today <= ParseDate(e.date)
                     /\ ParseDate(e.date) < today + WeekDays
    IN  SelectSeq(q, InWeek)

\* lines 302-307: the venue names of those events.
metadata_week_venues(today, q) ==
    LET w == metadata_week_events(today, q)
    IN  { w[i].venue.name : i \in { j \in 1..Len(w) :
                                      /\ Has(w[j], "venue")
                                      /\ Truthy(Get(w[j].venue, "name")) } }

\* lines 309-322.
metadata_output(today, q) ==
    [state |-> "json",
     total_events |-> Len(metadata_week_events(today, q)),
     total_venues |-> Cardinality(metadata_week_venues(today, q)),
     start |-> FormatDate(today), end |-> FormatDate(today + WeekDays)]

(***************************************************************************)
(* main, lines 336-811: the collector blocks, the stages, the writers and  *)
(* the split.                                                              *)
(***************************************************************************)
\* The collector blocks of main, each `try: fetch_events; add_events /
\* except Exception: print`.
NumCollectors == 2

\* The label each block passes to add_events; no two blocks share one.
CollectorSources == <<"TPL", "Community", "EarlyON", "Museums">>

CollectorSource(i) == CollectorSources[i]

\* What the collectors of a run hand over.  Each scraper has its own events:
\* the odd blocks a past event, one of today and one of today with an
\* unpadded hour; the even blocks the same event of today as the odd ones
\* (a duplicate across sources), another with the same date and start time
\* that comes with an id of its collector's, and one four weeks ahead.
RunVenueROM == [name |-> "ROM", address |-> LookupAddress]
RunVenueAGO == [name |-> "AGO", address |-> LookupAddress, lat |-> "43.65", lng |-> "-79.39"]

RunEvent(title, offset, start_time, venue) ==
    [title |-> title, date |-> FormatDate(Day0 + offset), start_time |-> start_time,
     venue |-> venue]

RunEvents(i) ==
    IF i % 2 = 1
    THEN { RunEvent("Storytime", -1, "10:00", RunVenueROM),
           RunEvent("Storytime", 0, "10:00", RunVenueROM),
           RunEvent("Lego Club", 0, "9:00", RunVenueAGO) }
    ELSE { RunEvent("Storytime", 0, "10:00", RunVenueROM),
           Put(RunEvent("Lego Club", 0, "10:00", RunVenueAGO), "id", "evt-1"),
           RunEvent("Storytime", 28, "10:00", RunVenueAGO) }

\* Records a scraper may hand over that lack what the fingerprint reads: no
\* venue, or a venue without a name.
BrokenRunEvents ==
    { [title |-> "Storytime", date |-> FormatDate(Day0), start_time |-> "10:00"],
      [title |-> "Lego Club", date |-> FormatDate(Day0), start_time |-> "10:00",
       venue |-> [address |-> LookupAddress]] }

\* The total number of records the collectors of one run hand over.
MaxRunSubmitted == 3

\* What the Places endpoint answers during a run.
RunOutcomes == { [kind |-> "found", pid |-> "ChIJ-1"], [kind |-> "zero"], [kind |-> "http"] }

AfterCollector == IF collector_i = NumCollectors THEN "filter" ELSE "collect"

\* A collector block whose scraper returns a batch: add_events runs on it;
\* a KeyError out of add_events is caught by the block's except.
CollectorReturns(batch) ==
    /\ pc = "collect"
    /\ Len(submitted) + Len(batch) <= MaxRunSubmitted
    /\ add_events(batch, CollectorSource(collector_i))
    /\ collector_log' = Append(collector_log,
                               [source |-> CollectorSource(collector_i),
                                raised |-> FALSE, before |-> Len(events)])
    /\ collector_i'   = collector_i + 1
    /\ pc'            = AfterCollector
    /\ UNCHANGED <<last_stage, stage_in, enrich_i, events_full, metadata, filter_today,
                   venue_in, venue_out, clientVars, clockVars, splitVars>>

\* A block that swallows nothing: the exception of the scraper ends main.
after_collector_raise_uncaught == "aborted"

\* lines 350-351 and their like: `except Exception as e: print(...)`, then
\* main goes on with the next block.
after_collector_raise == AfterCollector

\* A collector block whose scraper (its constructor or fetch_events) raises.
CollectorRaises ==
    /\ pc = "collect"
    /\ collector_log' = Append(collector_log,
                               [source |-> CollectorSource(collector_i),
                                raised |-> TRUE, before |-> Len(events)])
    /\ collector_i'   = collector_i + 1
    /\ pc'            = after_collector_raise
    /\ UNCHANGED <<aggVars, last_stage, stage_in, enrich_i, events_full, metadata, filter_today,
                   venue_in, venue_out, clientVars, clockVars, splitVars>>

\* line 776: aggregator.filter_past_events(); an exception ends main.
FilterPastEvents ==
    /\ pc = "filter"
    /\ stage_in'   = events
    /\ last_stage' = [name |-> "filter", raised |-> filter_raises(events)]
    /\ events'     = IF filter_raises(events) THEN events
                     ELSE filter_past_events(sys_date, events)
    /\ pc'         = IF filter_raises(events) THEN "aborted" ELSE "validate"
    /\ filter_today' = sys_date
    /\ UNCHANGED <<seen_hashes, agg_ret, agg_stdout, submitted, origin, lastCall,
                   collector_i, collector_log, enrich_i, events_full, metadata,
                   venue_in, venue_out, clientVars, clockVars, splitVars>>

\* line 777: aggregator.validate_events().
ValidateEvents ==
    /\ pc = "validate"
    /\ stage_in'   = events
    /\ last_stage' = [name |-> "validate", raised |-> FALSE]
    /\ events'     = validate_events(events)
    /\ enrich_i'   = 1
    /\ pc'         = IF validate_events(events) = <<>> THEN "sort" ELSE "enrich"
    /\ UNCHANGED <<seen_hashes, agg_ret, agg_stdout, submitted, origin, lastCall,
                   collector_i, collector_log, events_full, metadata, filter_today,
                   venue_in, venue_out, clientVars, clockVars, splitVars>>

\* line 778, enrich_with_place_ids: one turn of the loop of lines 167-183,
\* on events[enrich_i].
EnrichNext(outcome) ==
    LET event == events[enrich_i]
        venue == event.venue
        skip  == ~ Has(event, "venue") \/ Has(venue, "place_id")
        r     == lookup_place_id(venue.name, venue.address, outcome, "ok")
        out   == IF enrich_venue_skips(venue) THEN venue
                 ELSE enrich_venue_write(venue, r.ret, r.cache)
    IN  /\ pc = "enrich"
        /\ stage_in'   = IF enrich_i = 1 THEN events ELSE stage_in
        /\ last_stage' = [name |-> "enrich", raised |-> FALSE]
        /\ IF skip
           THEN UNCHANGED <<events, venue_in, venue_out, clientVars, clockVars>>
           ELSE /\ EnrichVenueEffects(venue, outcome, "ok")
                /\ events' = [events EXCEPT ![enrich_i] = Put(event, "venue", out)]
        /\ enrich_i'   = enrich_i + 1
        /\ pc'         = IF enrich_i = Len(events) THEN "sort" ELSE "enrich"
        /\ UNCHANGED <<seen_hashes, agg_ret, agg_stdout, submitted, origin, lastCall,
                       collector_i, collector_log, events_full, metadata, filter_today, splitVars>>

\* line 779: aggregator.sort_events().
SortEvents ==
    /\ pc = "sort"
    /\ stage_in'   = events
    /\ last_stage' = [name |-> "sort", raised |-> FALSE]
    /\ events'     = sort_events(events)
    /\ pc'         = "save"
    /\ UNCHANGED <<seen_hashes, agg_ret, agg_stdout, submitted, origin, lastCall,
                   collector_i, collector_log, enrich_i, events_full, metadata, filter_today,
                   venue_in, venue_out, clientVars, clockVars, splitVars>>

\* What the read-back of lines 260-264 finds where save_separate_files has
\* just written events.json: the file as written, or, another process
\* having removed or truncated it meanwhile, no file or no JSON.
ReadBacks == {"written", "missing", "garbled"}

\* line 795, save_separate_files: events.json (both copies) is written and
\* read back, then events_full.json is written.  open() or json.load raising
\* in the read-back leaves save_separate_files and main.  (get_statistics,
\* line 785, reads the list and changes nothing.)
SaveSeparateFilesReadBack(found) ==
    /\ pc = "save"
    /\ events_json' = IF found = "written" THEN FeedJson(events)
                      ELSE IF found = "missing" THEN FeedAbsent
                      ELSE FeedGarbled
    /\ events_full' = IF found = "written" THEN [state |-> "json", events |-> events]
                      ELSE events_full
    /\ pc'          = IF found = "written" THEN "metadata" ELSE "aborted"
    /\ UNCHANGED <<aggVars, collector_i, collector_log, last_stage, stage_in, enrich_i,
                   metadata, filter_today, venue_in, venue_out, clientVars, clockVars,
                   sys_date, week_files, split_result, split_today, split_feed>>

\* save_separate_files with nothing else touching events.json.
SaveSeparateFiles == SaveSeparateFilesReadBack("written")

\* line 796, save_metadata.
SaveMetadata ==
    /\ pc = "metadata"
    /\ metadata' = metadata_output(sys_date, events)
    /\ pc'       = "split"
    /\ UNCHANGED <<aggVars, collector_i, collector_log, last_stage, stage_in, enrich_i,
                   events_full, filter_today, venue_in, venue_out, clientVars, clockVars,
                   splitVars>>

\* A split step without its try: the exception ends main.
after_split_raise_uncaught == "aborted"

\* lines 805-806: `except Exception as e: print(...)`, then main prints its
\* closing lines.
after_split_raise == "done"

\* lines 802-806: split_events_by_week() inside try/except Exception.
SplitStep ==
    /\ pc = "split"
    /\ split_events_by_week
    /\ pc' = IF split_result' = "raised" THEN after_split_raise ELSE "done"
    /\ UNCHANGED <<aggVars, collector_i, collector_log, last_stage, stage_in, enrich_i,
                   events_full, metadata, filter_today, venue_in, venue_out, clientVars, clockVars>>

\* Another process removes or truncates events.json after main wrote it and
\* before the split step reads it.
FeedDisturbed(f) ==
    /\ pc = "split"
    /\ events_json.state = "json"
    /\ events_json' = f
    /\ UNCHANGED <<sys_date, week_files, split_result, split_today, split_feed,
                   aggVars, clientVars, clockVars, runVars>>

\* Midnight passes while main runs.
MidnightInRun ==
    /\ pc \notin {"done", "aborted"}
    /\ DayPasses

\* What the collectors hand over in a run exposed to its surroundings: the
\* odd blocks an event of today and one whose date is not a date, the even
\* blocks an event of next week.
WorldEvents(i) ==
    IF i % 2 = 1
    THEN { RunEvent("Storytime", 0, "10:00", RunVenueROM),
           [title |-> "Lego Club", date |-> "TBD", start_time |-> "10:00",
            venue |-> RunVenueAGO] }
    ELSE { RunEvent("Storytime", WeekDays, "10:00", RunVenueAGO) }

(***************************************************************************)
(* Initial states and specifications.                                      *)
(***************************************************************************)
\* main is not running.
RunIdle ==
    /\ pc            = "idle"
    /\ collector_i   = 1
    /\ collector_log = <<>>
    /\ last_stage    = [name |-> "none", raised |-> FALSE]
    /\ stage_in      = <<>>
    /\ enrich_i      = 1
    /\ events_full   = [state |-> "absent", events |-> <<>>]
    /\ metadata      = [state |-> "absent"]
    /\ filter_today  = 0
    /\ venue_in      = [none |-> TRUE]
    /\ venue_out     = [none |-> TRUE]

\* An aggregator whose working list is q.
AggregatorHolding(q) ==
    /\ events      = q
    /\ seen_hashes = {}
    /\ agg_ret     = [kind |-> "none"]
    /\ agg_stdout  = [none |-> TRUE]
    /\ submitted   = <<>>
    /\ origin      = <<>>
    /\ lastCall    = [none |-> TRUE]

\* No split yet; f is what events.json holds.
SharderIdle(f) ==
    /\ sys_date     = Day0
    /\ events_json  = f
    /\ week_files   = [n \in Weeks |-> NoFile]
    /\ split_result = "none"
    /\ split_today  = Day0
    /\ split_feed   = <<>>

AggregatorFresh ==
    /\ events      = <<>>
    /\ seen_hashes = {}
    /\ agg_ret     = [kind |-> "none"]
    /\ agg_stdout  = [none |-> TRUE]
    /\ submitted   = <<>>
    /\ origin      = <<>>
    /\ lastCall    = [none |-> TRUE]

\* No client constructed yet; the cache file is whatever earlier runs left.
ClientDown(file) ==
    /\ alive         = "down"
    /\ api_key       = FALSE
    /\ cache         = EmptyMap
    /\ cache_file    = file
    /\ api_calls     = 0
    /\ cache_hits    = 0
    /\ last_api_call = 0
    /\ loaded        = EmptyMap
    /\ loaded_state  = "absent"
    /\ calls         = <<>>
    /\ net_calls     = 0
    /\ last_net      = -1
    /\ net_gap       = -1
    /\ zero_keys     = {}
    /\ zero_ever     = {}
    /\ skipped_keys  = {}
    /\ runs          = 0
    /\ lookups       = 0

ClockStart == wall = WallStart /\ mono = 0

\* Cache files an earlier run can have left.
InitialFiles ==
    { FileAbsent, FileGarbled, FileUndecodable,
      FileJson(Put(EmptyMap, generate_cache_key("ROM", LookupAddress),
                   cache_entry_for("ROM", LookupAddress,
                                   call_places_api([kind |-> "found", pid |-> "ChIJ-1"])))) }

InitAggregator ==
    AggregatorFresh /\ ClientDown(FileAbsent) /\ ClockStart /\ SharderIdle(FeedAbsent)
    /\ RunIdle

NextAggregator == AddEventsCall

SpecAggregator == InitAggregator /\ [][NextAggregator]_vars

InitClient ==
    /\ AggregatorFresh /\ ClockStart /\ SharderIdle(FeedAbsent) /\ RunIdle
    /\ \E f \in InitialFiles : ClientDown(f)

NextClient ==
    \/ \E k \in BOOLEAN : NewClient(k)
    \/ \E n \in LookupNames, o \in ApiOutcomes, s \in SaveOutcomes :
         Lookup(n, LookupAddress, o, s)
    \/ \E n \in LookupNames, o \in ApiOutcomes, p \in KillPoints :
         LookupKilled(n, LookupAddress, o, p)

SpecClient == InitClient /\ [][NextClient]_vars

\* The rate limiter under a moving and an adjustable clock; every save succeeds.
InitRate ==
    AggregatorFresh /\ ClockStart /\ ClientDown(FileAbsent) /\ SharderIdle(FeedAbsent)
    /\ RunIdle

NextRate ==
    \/ NewClient(TRUE)
    \/ \E n \in LookupNames :
         Lookup(n, LookupAddress, [kind |-> "found", pid |-> "ChIJ-1"], "ok")
    \/ \E d \in TimeSteps : TimePasses(d)
    \/ \E j \in ClockJumps : ClockAdjust(j)

SpecRate == InitRate /\ [][NextRate]_vars

InitSharder ==
    /\ AggregatorFresh /\ ClockStart /\ ClientDown(FileAbsent) /\ RunIdle
    /\ \E f \in {FeedAbsent, FeedGarbled}
               \cup { FeedJson(q) : q \in SeqsUpTo(FeedEvents, MaxFeed) } :
         SharderIdle(f)

NextSharder ==
    \/ SplitByWeek
    \/ DayPasses
    \/ \E q \in RewrittenFeeds : WriteFeed(q)

SpecSharder == InitSharder /\ [][NextSharder]_vars

\* enrich_venue on venues with and without coordinates; every save succeeds.
InitEnrich ==
    /\ AggregatorFresh /\ ClockStart /\ SharderIdle(FeedAbsent) /\ RunIdle
    /\ ClientDown(FileAbsent)

NextEnrich ==
    \/ \E k \in BOOLEAN : NewClient(k)
    \/ \E v \in EnrichVenues, o \in EnrichOutcomes : EnrichVenue(v, o, "ok")

SpecEnrich == InitEnrich /\ [][NextEnrich]_vars

\* One run of main: DataAggregator() has constructed its client (an API key
\* is set, no cache file yet) and the first collector block is next.
InitRun ==
    /\ AggregatorFresh /\ ClockStart /\ SharderIdle(FeedAbsent)
    /\ alive = "running" /\ api_key \in BOOLEAN
    /\ cache = EmptyMap /\ cache_file = FileAbsent
    /\ api_calls = 0 /\ cache_hits = 0 /\ last_api_call = 0
    /\ loaded = EmptyMap /\ loaded_state = "absent"
    /\ calls = <<>> /\ net_calls = 0 /\ last_net = -1 /\ net_gap = -1
    /\ zero_keys = {} /\ zero_ever = {} /\ skipped_keys = {}
    /\ runs = 1 /\ lookups = 0
    /\ pc            = "collect"
    /\ collector_i   = 1
    /\ collector_log = <<>>
    /\ last_stage    = [name |-> "none", raised |-> FALSE]
    /\ stage_in      = <<>>
    /\ enrich_i      = 1
    /\ events_full   = [state |-> "absent", events |-> <<>>]
    /\ metadata      = [state |-> "absent"]
    /\ filter_today  = 0
    /\ venue_in      = [none |-> TRUE]
    /\ venue_out     = [none |-> TRUE]

\* The collector blocks of a run whose scrapers may hand over broken records.
NextCollect ==
    \/ \E batch \in SeqsUpTo(RunEvents(collector_i) \cup BrokenRunEvents, MaxRunSubmitted) :
         CollectorReturns(batch)
    \/ CollectorRaises

SpecCollect == InitRun /\ [][NextCollect]_vars

\* A run of main with its surroundings: midnight may pass at any point,
\* another process may remove or truncate events.json, and a scraper may
\* hand over a date that is not a date.
NextRunWorld ==
    \/ \E batch \in SeqsUpTo(WorldEvents(collector_i), MaxRunSubmitted) : CollectorReturns(batch)
    \/ CollectorRaises
    \/ FilterPastEvents
    \/ ValidateEvents
    \/ EnrichNext([kind |-> "found", pid |-> "ChIJ-1"])
    \/ SortEvents
    \/ \E found \in ReadBacks : SaveSeparateFilesReadBack(found)
    \/ SaveMetadata
    \/ \E f \in {FeedAbsent, FeedGarbled} : FeedDisturbed(f)
    \/ SplitStep
    \/ MidnightInRun

SpecRunWorld == InitRun /\ [][NextRunWorld]_vars

NextRun ==
    \/ \E batch \in SeqsUpTo(RunEvents(collector_i), MaxRunSubmitted) : CollectorReturns(batch)
    \/ CollectorRaises
    \/ FilterPastEvents
    \/ ValidateEvents
    \/ \E o \in RunOutcomes : EnrichNext(o)
    \/ SortEvents
    \/ SaveSeparateFiles
    \/ SaveMetadata
    \/ SplitStep

SpecRun == InitRun /\ [][NextRun]_vars

\* validate_events called, again and again, on any working list.
InitValidate ==
    /\ ClockStart /\ ClientDown(FileAbsent) /\ SharderIdle(FeedAbsent) /\ RunIdle
    /\ \E q \in SeqsUpTo(ValidateRecords, MaxWorking) : AggregatorHolding(q)

NextValidate == ValidateEventsCall

SpecValidate == InitValidate /\ [][NextValidate]_vars

(***************************************************************************)
(* Claims about the aggregator.                                            *)
(***************************************************************************)
\* The fingerprint of the specification text: (lower(title), date,
\* start_time, lower(venue.name)); a record lacking one of them has none.
HasFingerprint(e) == ~ HashRaises(e)

Fingerprint(e) == <<Lower(e.title), e.date, e.start_time, Lower(e.venue.name)>>

\* The first record handed to add_events, in call order, with fingerprint fp.
FirstSubmitted(fp) ==
    CHOOSE n \in 1..Len(submitted) :
      /\ HasFingerprint(submitted[n]) /\ Fingerprint(submitted[n]) = fp
      /\ \A m \in 1..(n - 1) :
           ~ (HasFingerprint(submitted[m]) /\ Fingerprint(submitted[m]) = fp)

NoTwoWithOneFingerprint ==
    \A i, j \in 1..Len(events) :
      i # j => Fingerprint(events[i]) # Fingerprint(events[j])

\* C1: the working list never holds two records with one fingerprint, and
\* the record held for a fingerprint is the first one submitted with it, in
\* call order, over all add_events calls.
C1_FirstSubmittedIsHeld ==
    /\ NoTwoWithOneFingerprint
    /\ \A i \in 1..Len(events) :
         origin[i] = FirstSubmitted(Fingerprint(events[i]))

\* The last call's batch: n >= 1 records, all with the one fingerprint.
OneFingerprintBatch ==
    /\ Has(lastCall, "batch")
    /\ Len(lastCall.batch) >= 1
    /\ \A i \in 1..Len(lastCall.batch) :
         /\ HasFingerprint(lastCall.batch[i])
         /\ Fingerprint(lastCall.batch[i]) = Fingerprint(lastCall.batch[1])

BatchSeenBefore ==
    generate_event_hash(lastCall.batch[1]) \in lastCall.seen

\* C2 as stated: the caller of add_events receives both counts, added = 1
\* and duplicates = n-1 for n records of one (new) fingerprint, added = 0
\* and duplicates = 1 for a re-submitted record.
C2_CallerGetsBothCounts ==
    OneFingerprintBatch =>
      LET n == Len(lastCall.batch)
      IN  /\ Has(agg_ret, "added") /\ Has(agg_ret, "duplicates")
          /\ ~ BatchSeenBefore => (agg_ret.added = 1 /\ agg_ret.duplicates = n - 1)
          /\ (BatchSeenBefore /\ n = 1) => (agg_ret.added = 0 /\ agg_ret.duplicates = 1)

\* C2 amended: add_events returns the added count alone; the duplicates
\* count is only printed, and only when it is positive.  n records of one
\* new fingerprint: returns 1, prints n-1 skipped (no line for n = 1); a
\* re-submitted record: returns 0, prints 1 skipped.
C2_ReturnsAddedPrintsDuplicates ==
    OneFingerprintBatch =>
      LET n == Len(lastCall.batch)
      IN  /\ agg_ret = [kind |-> "return",
                        added |-> IF BatchSeenBefore THEN 0 ELSE 1]
          /\ ~ BatchSeenBefore =>
               agg_stdout = IF n > 1 THEN [added |-> 1, skipped |-> n - 1]
                            ELSE [added |-> 1]
          /\ BatchSeenBefore => agg_stdout = [added |-> 0, skipped |-> n]

\* A record kept from TPL is submitted again, alone, by Community.
C2_Witness ==
    /\ OneFingerprintBatch /\ BatchSeenBefore
    /\ Len(lastCall.batch) = 1
    /\ lastCall.source = "Community"
    /\ \E i \in 1..Len(events) :
         /\ Fingerprint(events[i]) = Fingerprint(lastCall.batch[1])
         /\ events[i].source = "TPL"
    /\ agg_ret = [kind |-> "return", added |-> 0]

\* C13: a record submitted without a required field is not fatal to its
\* batch: every other record of the batch is still processed (kept, or
\* recognised as a duplicate), and the record itself is in no working list.
C13_MissingFieldSparesTheBatch ==
    [][ submitted' # submitted =>
          LET batch == lastCall'.batch
          IN  /\ \A i \in 1..Len(batch) :
                   HasFingerprint(batch[i]) =>
                     generate_event_hash(batch[i]) \in seen_hashes'
              /\ \A i \in 1..Len(events') : has_required(events'[i]) ]_vars

(***************************************************************************)
(* Claims about the enrichment client.                                     *)
(***************************************************************************)
CallKey(c) == generate_cache_key(c.name, c.address)

\* This step is a lookup_place_id call returning; LastCall is that call.
LookupReturns == Len(calls') = Len(calls) + 1

LastCall == calls'[Len(calls')]

SameArguments(c, d) == c.name = d.name /\ c.address = d.address

FirstTwoCalls(fresh_only) ==
    (api_key /\ Len(calls) >= 1
       /\ (fresh_only => CallKey(calls[1]) \notin DOMAIN loaded)) =>
      /\ calls[1].api_calls = 1 /\ calls[1].cache_hits = 0
      /\ calls[1].net_calls = 1
      /\ (Len(calls) >= 2 /\ SameArguments(calls[1], calls[2])) =>
           /\ calls[2].api_calls = 1 /\ calls[2].cache_hits = 1
           /\ calls[2].net_calls = 1
           /\ calls[2].ret = calls[1].ret

\* C3 as stated: with credentials, the first two calls of a client, with
\* identical (name, address), leave api_calls = 1, cache_hits = 0 and then
\* api_calls = 1, cache_hits = 1, with one outbound call and equal results.
C3_TwoCallsOneOutbound == FirstTwoCalls(FALSE)

\* C3 amended: the same, for a key that the cache the client loaded at
\* construction does not hold.
C3_TwoCallsOneOutboundWhenNotLoaded == FirstTwoCalls(TRUE)

C3_Witness ==
    /\ api_key /\ Len(calls) >= 2
    /\ SameArguments(calls[1], calls[2])
    /\ CallKey(calls[1]) \notin DOMAIN loaded
    /\ calls[1].ret \in PlaceIds
    /\ calls[2].cache_hits = 1 /\ api_calls = 1

NullCacheHit ==
    /\ LastCall.how = "hit" /\ LastCall.ret = Null
    /\ net_calls' = net_calls
    /\ cache_hits' = cache_hits + 1

\* The key had a zero-results lookup in this run, or in an earlier run and
\* this run loaded the cache file.
ZeroResultsBefore(key) ==
    /\ key \in zero_ever
    /\ (\E i \in 1..Len(calls) : CallKey(calls[i]) = key /\ calls[i].how = "zero")
       \/ loaded_state = "json"

\* C4 as stated, its core: after a lookup of a key returned zero results,
\* no later lookup of the key, in the same run or in a later run that loads
\* the cache file, makes an outbound call.
C4_ZeroResultsNeverRetried ==
    [][ (LookupReturns /\ ZeroResultsBefore(CallKey(LastCall))) =>
          net_calls' = net_calls ]_vars

\* C4 amended: ... every later lookup of the key in the same run, and in a
\* later run whose loaded cache file still holds that entry, is a null
\* cache hit with no outbound call.
C4_ZeroResultsEntryNotRetried ==
    [][ (LookupReturns /\ CallKey(LastCall) \in zero_keys) => NullCacheHit ]_vars

\* A later run got the zero-results entry back from the file and hit it.
C4_Witness ==
    /\ runs = 2 /\ Len(calls) >= 1
    /\ CallKey(calls[1]) \in zero_keys
    /\ calls[1].how = "hit" /\ calls[1].ret = Null

\* C5: a lookup that makes the outbound call leaves an entry for its key
\* whatever the outcome, with a null place_id for zero results, an HTTP
\* error and a network error (the place id itself on success), and the
\* outbound call is only made for a key that has no entry.
C5_EveryOutcomeIsCached ==
    [][ (LookupReturns /\ net_calls' = net_calls + 1) =>
          LET key == CallKey(LastCall)
          IN  /\ key \notin DOMAIN cache
              /\ key \in DOMAIN cache'
              /\ cache'[key].place_id = LastCall.ret
              /\ LastCall.how \in {"zero", "http", "net", "no_id"} => LastCall.ret = Null
              /\ LastCall.how = "found" => LastCall.ret \in PlaceIds ]_vars

\* A key failed with an HTTP or network error and was then served from the cache.
C5_Witness ==
    /\ Len(calls) >= 2
    /\ calls[1].how \in {"http", "net"}
    /\ SameArguments(calls[1], calls[2])
    /\ calls[2].how = "hit" /\ calls[2].ret = Null
    /\ net_calls = 1

\* C6: without an API key, a lookup of an uncached key returns null, sends
\* nothing, writes no entry in memory or on disk and leaves api_calls; a
\* later client with credentials sends a request for that key.
C6_NoCredentialsNoCaching ==
    [][ LookupReturns =>
          LET key == CallKey(LastCall)
          IN  /\ (~ api_key /\ key \notin DOMAIN cache) =>
                   /\ LastCall.ret = Null
                   /\ net_calls' = net_calls
                   /\ cache' = cache /\ cache_file' = cache_file
                   /\ api_calls' = api_calls
              /\ (api_key /\ key \in skipped_keys) =>
                   net_calls' = net_calls + 1 ]_vars

\* A key skipped by a client without credentials is fetched by a later one.
C6_Witness ==
    /\ api_key /\ runs = 2
    /\ \E i \in 1..Len(calls) :
         calls[i].was_skipped /\ calls[i].how = "found"

\* C7: at least min_delay_seconds of real time lie between the starts of
\* any two consecutive outbound requests of one client.
C7_MinDelayBetweenOutboundCalls == net_gap = -1 \/ net_gap >= MinDelayMs

\* C8 as stated: when a lookup that wrote an entry returns, the file holds
\* exactly the in-memory cache.
C8_FileEqualsCacheAfterWrite ==
    [][ (LookupReturns /\ cache' # cache) => cache_file' = FileJson(cache') ]_vars

\* C8 amended: ... when a lookup that wrote an entry returns and its
\* _save_cache did not hit an IOError, the file holds exactly the in-memory
\* cache, the new entry included.
C8_FileEqualsCacheAfterSavedWrite ==
    [][ (LookupReturns /\ cache' # cache /\ LastCall.save = "ok") =>
          /\ cache_file' = FileJson(cache')
          /\ CallKey(LastCall) \in DOMAIN cache_file'.content ]_vars

\* The second entry of a run is on disk as soon as its lookup returned.
C8_Witness ==
    /\ Len(calls) >= 2
    /\ calls[Len(calls)].save = "ok"
    /\ Cardinality(DOMAIN cache) = Cardinality(DOMAIN loaded) + 2
    /\ cache_file = FileJson(cache)

\* C9: the cache a run loads after a crash holds every entry the crashed
\* process held when its last lookup returned (those it loaded and those
\* whose lookups returned).  Stated for crashed runs none of whose saves hit
\* an IOError.
C9_CrashKeepsEntries ==
    [][ ( /\ alive = "killed" /\ alive' = "running"
          /\ \A i \in 1..Len(calls) : calls[i].save # "open_fails"
                                     /\ calls[i].save # "write_fails" ) =>
          \A k \in DOMAIN cache : k \in DOMAIN cache' /\ cache'[k] = cache[k] ]_vars

\* C20: a cache file that cannot be read or parsed never aborts: the
\* constructor returns a client with an empty cache; and a lookup whose save
\* fails still returns its result.
C20_CacheIOFailureNeverAborts ==
    [][ /\ runs' = runs + 1 =>
             /\ alive' = "running"
             /\ cache_file.state # "json" => cache' = EmptyMap
        /\ (LookupReturns /\ LastCall.save # "ok") =>
             LastCall.ret \in PlaceIds \cup {Null} ]_vars

\* C19: enrich_venue writes the place id lookup returned into the venue,
\* and a venue that already has a coordinate (lat, lng or both, of any
\* value) keeps its coordinates as they were.
C19_CoordinatesKept ==
    (Has(venue_in, "name") /\ (Has(venue_in, "lat") \/ Has(venue_in, "lng"))) =>
      /\ Get(venue_out, "lat") = Get(venue_in, "lat")
      /\ Get(venue_out, "lng") = Get(venue_in, "lng")
      /\ Has(venue_out, "lat") = Has(venue_in, "lat")
      /\ Has(venue_out, "lng") = Has(venue_in, "lng")
      /\ Has(venue_out, "place_id") => venue_out.place_id \in PlaceIds

\* C26: while one client lives, the set of cache keys only grows, the
\* place_id under a key never changes, and every lookup of a key after the
\* one that resolved it returns what that one returned.
C26_CacheOnlyGrows ==
    [][ runs' = runs =>
          /\ DOMAIN cache \subseteq DOMAIN cache'
          /\ \A k \in DOMAIN cache : cache'[k].place_id = cache[k].place_id
          /\ \A i, j \in 1..Len(calls') :
               ( i < j /\ CallKey(calls'[i]) = CallKey(calls'[j]) /\ calls'[i].how # "no_key" )
                 => /\ calls'[j].how = "hit"
                    /\ calls'[j].ret = calls'[i].ret ]_vars

\* C26 witness: the client holds two keys, one of them loaded or fetched
\* before the other, and has answered a second lookup of a key from the
\* cache.
C26_Witness ==
    /\ alive = "running"
    /\ Cardinality(DOMAIN cache) >= 2
    /\ \E i, j \in 1..Len(calls) :
         /\ i < j /\ CallKey(calls[i]) = CallKey(calls[j])
         /\ calls[i].how = "found" /\ calls[j].how = "hit"
         /\ calls[j].ret = calls[i].ret

\* The counters before the i-th lookup of this client.
ApiCallsBefore(i)  == IF i = 1 THEN 0 ELSE calls[i - 1].api_calls
CacheHitsBefore(i) == IF i = 1 THEN 0 ELSE calls[i - 1].cache_hits

\* C27: while a client lives, its cache holds the entries it loaded plus
\* one per api_calls, api_calls is the number of outbound calls it made,
\* and each lookup added one to exactly one of api_calls and cache_hits,
\* or to neither when it missed without credentials.
C27_CounterAccounting ==
    alive = "running" =>
        /\ Cardinality(DOMAIN cache) = Cardinality(DOMAIN loaded) + api_calls
        /\ api_calls = net_calls
        /\ \A i \in 1..Len(calls) :
             LET da == calls[i].api_calls - ApiCallsBefore(i)
                 dh == calls[i].cache_hits - CacheHitsBefore(i)
             IN  CASE calls[i].how = "hit"    -> da = 0 /\ dh = 1
                   [] calls[i].how = "no_key" -> da = 0 /\ dh = 0
                   [] OTHER                   -> da = 1 /\ dh = 0
        /\ Len(calls) > 0 =>
             /\ api_calls  = calls[Len(calls)].api_calls
             /\ cache_hits = calls[Len(calls)].cache_hits

\* C27 witness: a client that loaded an entry has made an outbound call,
\* with a failed save, and answered a lookup from the cache.
C27_Witness ==
    /\ alive = "running"
    /\ Cardinality(DOMAIN loaded) = 1
    /\ api_calls = 1 /\ cache_hits = 1
    /\ \E i \in 1..Len(calls) : calls[i].save = "write_fails"

(***************************************************************************)
(* Claims about the sharder.                                               *)
(***************************************************************************)
Range(q) == { q[i] : i \in 1..Len(q) }

ShardEvents(n) ==
    IF week_files[n].state = "json" THEN Range(week_files[n].events) ELSE {}

\* C10: with `today` as split_by_week read it, every event of shard n
\* (file events_week{n+1}.json, n = 0..3) has today+7n <= date < today+7(n+1),
\* every shard event is an event of the feed read, and no event is in two
\* shards.
C10_ShardsInWindowDisjoint ==
    /\ \A w \in Weeks : \A e \in ShardEvents(w) :
         /\ Has(e, "date") /\ DateParses(e.date)
         /\ split_today + 7 * (w - 1) <= ParseDate(e.date)
         /\ ParseDate(e.date) < split_today + 7 * w
         /\ e \in Range(split_feed)
    /\ \A v, w \in Weeks : v # w => ShardEvents(v) \cap ShardEvents(w) = {}

\* A split put an event dated today+6 in week 1 and one dated today+7 in week 2.
C10_Witness ==
    /\ split_result = "written"
    /\ \E e \in ShardEvents(1) : ParseDate(e.date) = split_today + 6
    /\ \E e \in ShardEvents(2) : ParseDate(e.date) = split_today + 7

\* The dated events of a feed: those whose date strptime can read.
Dated(e) == Has(e, "date") /\ DateParses(e.date)

\* C23: with `today` as split_by_week read it, every event of the feed read
\* whose date d has today <= d < today+28 is in exactly one of the four
\* shards.
C23_ShardsCoverFourWeeks ==
    split_result = "written" =>
        \A e \in Range(split_feed) :
            ( Dated(e) /\ split_today <= ParseDate(e.date)
                       /\ ParseDate(e.date) < split_today + 4 * WeekDays )
              => \E w \in Weeks :
                    /\ e \in ShardEvents(w)
                    /\ \A v \in Weeks \ {w} : e \notin ShardEvents(v)

\* C23 witness: a split put an event dated today in the first shard and
\* one dated today+27 in the fourth.
C23_Witness ==
    /\ split_result = "written"
    /\ \E e \in ShardEvents(1) : ParseDate(e.date) = split_today
    /\ \E e \in ShardEvents(4) : ParseDate(e.date) = split_today + 27

\* The events of a feed dated in window n, in feed order.
WindowEvents(today, feed, n) ==
    LET InWindow(e) == /\ Dated(e)
                       /\ today + WeekDays * (n - 1) <= ParseDate(e.date)
                       /\ ParseDate(e.date) < today + WeekDays * n
    IN  SelectSeq(feed, InWindow)

\* Every shard file holds exactly the events of events.json dated in its
\* window.
ShardsOfFeed(files, today, feed) ==
    \A n \in Weeks : /\ files[n].state = "json"
                     /\ files[n].events = WindowEvents(today, feed, n)

\* C24 as stated: every invocation of split_by_week, whatever it finds in
\* events.json, leaves four shard files that hold the events of that feed
\* dated in their windows and nothing else.
C24_EveryInvocationWritesAllShards ==
    [][ split_result' # split_result =>
          ShardsOfFeed(week_files', sys_date, events_json.events) ]_vars

\* C24 amended: an invocation that finds at least one event in events.json
\* writes all four shard files, each with exactly the events of that feed
\* dated in its window; an invocation that finds no file, no JSON or no
\* events writes nothing, so the shard files stay as an earlier run left
\* them.
C24_ShardsWrittenOnlyForAFeedWithEvents ==
    [][ /\ (split_result' # split_result \/ week_files' # week_files) =>
             IF events_json.state = "json" /\ events_json.events # <<>>
             THEN /\ split_result' = "written"
                  /\ ShardsOfFeed(week_files', sys_date, events_json.events)
             ELSE /\ split_result' \in {"no_file", "raised", "no_events"}
                  /\ week_files' = week_files
        /\ split_result' = "written" =>
             ShardsOfFeed(week_files', split_today', split_feed') ]_vars

\* C24 witness: split_by_week ran on a feed without events and the first
\* shard file still holds an event of the feed before.
C24_Witness ==
    /\ split_result = "no_events"
    /\ events_json = FeedJson(<<>>)
    /\ week_files[1].state = "json" /\ week_files[1].events # <<>>

(***************************************************************************)
(* Claims about the processing stages.                                     *)
(***************************************************************************)
\* C12: validate_events is idempotent: a call right after a call leaves the
\* working list as it is.
C12_ValidateTwiceChangesNothing ==
    [][ (last_stage.name = "validate" /\ last_stage'.name = "validate") =>
          events' = events ]_vars

\* validate_events ran twice in a row on a list in which it had filled in a
\* default.
C12_Witness ==
    /\ last_stage.name = "validate"
    /\ stage_in = events
    /\ Len(events) >= 2
    /\ \E i \in 1..Len(events) : events[i].age_groups = <<"All Ages">>
    /\ \E i \in 1..Len(events) : events[i].age_groups = <<"Toddlers">>

DisplayKeys == {"age_groups", "category", "icon", "indoor_outdoor", "organized_by", "website"}

\* The positions of stage_in that hold all four required keys, in order.
ValidPositions == SelectSeq([i \in 1..Len(stage_in) |-> i],
                            LAMBDA i : RequiredKeys \subseteq DOMAIN stage_in[i])

UpcomingPositions ==
    { i \in 1..Len(stage_in) : ParseDate(stage_in[i].date) >= sys_date }

\* The k-th of a set of positions, counted from the front.
NthOf(S, k) == CHOOSE i \in S : Cardinality({ j \in S : j <= i }) = k

\* C17: after filter_past_events the working list holds exactly the records
\* of the prior list dated on or after the run date, in their prior order.
C17_FilterKeepsExactlyUpcoming ==
    (last_stage.name = "filter" /\ ~ last_stage.raised) =>
        /\ Len(events) = Cardinality(UpcomingPositions)
        /\ \A k \in 1..Len(events) : events[k] = stage_in[NthOf(UpcomingPositions, k)]

\* C17 witness: the filter removed a past record and kept one dated today.
C17_Witness ==
    /\ last_stage.name = "filter" /\ ~ last_stage.raised
    /\ \E i \in 1..Len(stage_in) : ParseDate(stage_in[i].date) < sys_date
    /\ \E k \in 1..Len(events) : ParseDate(events[k].date) = sys_date

\* (date, start_time) of e not after that of f, as strings.
KeyNotAfter(e, f) ==
    \/ e.date = f.date /\ ~ StrLess(f.start_time, e.start_time)
    \/ e.date # f.date /\ StrLess(e.date, f.date)

SameKey(e, f) == e.date = f.date /\ e.start_time = f.start_time

NonDecreasing(q) == \A i, j \in 1..Len(q) : i < j => KeyNotAfter(q[i], q[j])

\* Where a record of the working list stood before the stage (the records
\* of the working list differ in their id).
PriorPosition(e) == CHOOSE i \in 1..Len(stage_in) : stage_in[i] = e

\* C15: sort_events leaves a permutation of the prior list, non-decreasing
\* under the string comparison of (date, start_time), records of equal key in
\* their prior relative order; events.json holds the events in this order.
C15_SortIsStableOnStringPair ==
    /\ last_stage.name = "sort" =>
         /\ Len(events) = Len(stage_in)
         /\ \A i \in 1..Len(stage_in) : \E k \in 1..Len(events) : events[k] = stage_in[i]
         /\ NonDecreasing(events)
         /\ \A i, j \in 1..Len(events) :
              (i < j /\ SameKey(events[i], events[j]))
                  => PriorPosition(events[i]) < PriorPosition(events[j])
    /\ (pc \in {"metadata", "split", "done"}) =>
         /\ events_json.state = "json"
         /\ events_json.events = events
         /\ NonDecreasing(events_json.events)

\* C15 witness: events.json written after a sort that had to move a record
\* and had two records of equal key to keep in order; one start time sorts
\* as a string behind a later time of day.
C15_Witness ==
    /\ pc = "done" /\ last_stage.name = "sort"
    /\ events # stage_in
    /\ \E i, j \in 1..Len(events) : i < j /\ SameKey(events[i], events[j])
    /\ \E i \in 1..Len(events_json.events) : events_json.events[i].start_time = "9:00"

\* C16: a collector that raised is caught: its source has no record in the
\* working list, the run goes on to every later collector, then to the
\* stages and the writers.
C16_CollectorFailureIsolated ==
    \A i \in 1..Len(collector_log) :
        collector_log[i].raised =>
            /\ \A k \in 1..Len(events) : events[k].source # collector_log[i].source
            /\ pc # "aborted"
            /\ pc # "collect" => Len(collector_log) = NumCollectors
            /\ pc = "done" => /\ last_stage.name = "sort"
                              /\ events_json.state = "json"
                              /\ events_full.state = "json"
                              /\ metadata.state = "json"
                              /\ split_result # "none"

\* C16 witness: the first collector raised, a later one delivered, and the
\* run ended with its events in events.json.
C16_Witness ==
    /\ pc = "done"
    /\ collector_log[1].raised
    /\ ~ collector_log[NumCollectors].raised
    /\ events_json.state = "json" /\ events_json.events # <<>>

\* The record without its venue.
WithoutVenue(e) == [k \in (DOMAIN e) \ {"venue"} |-> e[k]]

\* C18: enrich_with_place_ids leaves the working list with the same records
\* in the same order, each differing from before in its venue at most, and a
\* venue that got no place id is exactly as it was.
C18_EnrichmentLosesNoEvent ==
    last_stage.name = "enrich" =>
        /\ Len(events) = Len(stage_in)
        /\ \A i \in 1..Len(events) :
             /\ WithoutVenue(events[i]) = WithoutVenue(stage_in[i])
             /\ Has(events[i], "venue")
             /\ ~ Truthy(Get(events[i].venue, "place_id"))
                    => events[i].venue = stage_in[i].venue

\* C18 witness: the loop is over, one venue got a place id and another's
\* lookup came back empty.
C18_Witness ==
    /\ last_stage.name = "enrich" /\ pc = "sort"
    /\ \E i, j \in 1..Len(events) :
         /\ Has(events[i].venue, "place_id")
         /\ ~ Has(events[j].venue, "place_id")
    /\ api_calls > 0

\* The records of the working list dated four weeks or more after the run
\* date.
BeyondShards == { i \in 1..Len(events) : ParseDate(events[i].date) >= sys_date + 4 * WeekDays }

\* C11: when the run is over, a record dated on or after today+28 is in
\* events.json and in none of the four week files.
C11_BeyondFourWeeksOnlyInFeed ==
    pc = "done" =>
        \A i \in BeyondShards :
            /\ events_json.state = "json"
            /\ \E k \in 1..Len(events_json.events) : events_json.events[k] = events[i]
            /\ \A n \in Weeks :
                 week_files[n].state = "json"
                    => \A k \in 1..Len(week_files[n].events) :
                           week_files[n].events[k] # events[i]

\* C11 witness: the split wrote its files, one record is dated today+28 and
\* another is in the first week's file.
C11_Witness ==
    /\ pc = "done" /\ split_result = "written"
    /\ BeyondShards # {}
    /\ week_files[1].state = "json" /\ week_files[1].events # <<>>

\* The id the specification text gives a record: the digest of
\* lower(title), date, start_time and lower(venue.name).
FingerprintId(e) ==
    Md5(Lower(e.title) \o "_" \o e.date \o "_" \o e.start_time \o "_" \o Lower(e.venue.name))

\* The records a run holds or has written: the working list, events.json
\* and events_full.json.
RunRecords ==
    { events[i] : i \in 1..Len(events) }
      \cup { events_json.events[i] : i \in 1..Len(events_json.events) }
      \cup { events_full.events[i] : i \in 1..Len(events_full.events) }

\* C21 as stated: every record of the working list and of the written feed
\* has the digest of its own fingerprint as its id.
C21_IdIsOwnFingerprint ==
    \A e \in RunRecords : e.id = FingerprintId(e)

\* C21 amended: a record submitted without an id has the digest of its own
\* fingerprint as its id, at every point of the run and in the written
\* feed; a record submitted with an id keeps that id.
C21_IdIsOwnFingerprintUnlessSupplied ==
    \A e \in RunRecords :
        LET sub == submitted[FirstSubmitted(Fingerprint(e))]
        IN  e.id = IF Has(sub, "id") THEN sub.id ELSE FingerprintId(e)

\* C21 witness: the feed is written and holds a record with a computed id
\* next to one whose id its collector supplied.
C21_Witness ==
    /\ pc = "done"
    /\ \E i, j \in 1..Len(events_json.events) :
         /\ events_json.events[i].id = FingerprintId(events_json.events[i])
         /\ events_json.events[j].id = "evt-1"

\* The cache keys of the venues of the records that are past the filter and
\* the validation: complete, and dated on or after the run date.
SurvivorKeys ==
    { generate_cache_key(events[i].venue.name, events[i].venue.address) :
        i \in { j \in 1..Len(events) :
                  /\ has_required(events[j])
                  /\ ParseDate(events[j].date) >= sys_date
                  /\ ~ enrich_venue_skips(events[j].venue) } }

Outbound(c) == c.how \notin {"hit", "no_key"}

FirstBroken(batch) ==
    CHOOSE k \in 1..Len(batch) :
        /\ ~ HasFingerprint(batch[k])
        /\ \A i \in 1..(k - 1) : HasFingerprint(batch[i])

\* C28: when add_events raises on the k-th record of a batch, the working
\* list keeps what it held and the new records among the first k-1, the
\* seen-set has the fingerprints of those k-1, no record from position k on
\* is added, and main goes on to the next collector block.
C28_AddEventsKeepsWhatItDidBeforeRaising ==
    [][ (submitted' # submitted /\ agg_ret'.kind = "raise") =>
          LET batch == lastCall'.batch
              k     == FirstBroken(batch)
              early == { Fingerprint(batch[i]) : i \in 1..(k - 1) }
          IN  /\ seen_hashes' = seen_hashes
                                 \cup { generate_event_hash(batch[i]) : i \in 1..(k - 1) }
              /\ Len(events') >= Len(events)
              /\ SubSeq(events', 1, Len(events)) = events
              /\ \A fp \in early : \E m \in 1..Len(events') : Fingerprint(events'[m]) = fp
              /\ \A m \in (Len(events) + 1)..Len(events') :
                   /\ Fingerprint(events'[m]) \in early
                   /\ events'[m].source = lastCall'.source
              /\ collector_i' = collector_i + 1
              /\ pc' = IF collector_i = NumCollectors THEN "filter" ELSE "collect" ]_vars

\* C28 witness: the first collector's batch held a broken record behind a
\* good one; the good one is in the working list, and so is a record the
\* second collector handed over afterwards.
C28_Witness ==
    /\ pc = "filter"
    /\ Len(events) = 2
    /\ events[1].source = "TPL" /\ events[2].source = "Community"
    /\ Len(submitted) = 3
    /\ Fingerprint(events[1]) = Fingerprint(submitted[1])
    /\ ~ HasFingerprint(submitted[2])
    /\ Fingerprint(events[2]) = Fingerprint(submitted[3])

(***************************************************************************)
(* Claims about a run of main and its surroundings.                        *)
(***************************************************************************)
\* This step reads events.json and finds no file or no JSON: the read-back
\* of save_separate_files, or the split step.
UnreadableAtReadBack == pc = "save" /\ pc' # "save" /\ events_json'.state # "json"
UnreadableAtSplit    == pc = "split" /\ pc' # "split" /\ events_json.state # "json"

\* C22 as stated: a read of events.json that finds it missing or invalid
\* aborts the run, and nothing else does.
C22_OnlyUnreadableFeedIsFatal ==
    [][ /\ (UnreadableAtReadBack \/ UnreadableAtSplit) => pc' = "aborted"
        /\ (pc # "aborted" /\ pc' = "aborted")
             => (UnreadableAtReadBack \/ UnreadableAtSplit) ]_vars

\* C22 amended: events.json missing or invalid at the read-back of
\* save_separate_files aborts the run; missing or invalid at the split step
\* it does not: the run completes and the shard files stay as they were.
C22_UnreadableFeedFatalOnlyAtReadBack ==
    [][ /\ (pc = "save" /\ pc' # "save") =>
             (pc' = "aborted" <=> events_json'.state # "json")
        /\ (pc = "split" /\ pc' # "split") => pc' = "done"
        /\ UnreadableAtSplit =>
             /\ week_files' = week_files
             /\ split_result' = IF events_json.state = "absent" THEN "no_file"
                                ELSE "raised" ]_vars

\* C22 witness: the run is over although the split step found events.json
\* truncated by another process.
C22_Witness ==
    /\ pc = "done"
    /\ split_result = "raised"
    /\ events_json = FeedGarbled
    /\ events_full.state = "json"

\* C25: after the collectors no stage raises, whatever the records in the
\* working list.
C25_NoStageRaisesOnContent == ~ last_stage.raised

\* The records of the working list dated less than four weeks after the
\* date filter_past_events used.
WithinFourWeeksOfFilter ==
    { events[i] : i \in { j \in 1..Len(events) :
                            ParseDate(events[j].date) < filter_today + 4 * WeekDays } }

\* C30: when a run has written its shards from its own feed, every record
\* the filter kept that is dated less than 28 days after the filter's date is
\* in exactly one shard, and metadata.json counts as many events as the
\* first shard holds.
C30_StagesAgreeOnRunDate ==
    (pc = "done" /\ split_result = "written" /\ split_feed = events) =>
        /\ \A e \in WithinFourWeeksOfFilter :
             \E w \in Weeks : /\ e \in ShardEvents(w)
                              /\ \A v \in Weeks \ {w} : e \notin ShardEvents(v)
        /\ metadata.total_events = Len(week_files[1].events)

=============================================================================
